---- MODULE Spec2Model ----
(***************************************************************************)
(* Model of the incremental activity export of strava.py:                  *)
(* get_activities_for_2024 with load_metadata, save_metadata,              *)
(* get_access_token and append_activity_to_csv, the remote activity list   *)
(* it pages through, and the two files it owns (activity_metadata.json and *)
(* activities.csv).                                                        *)
(*                                                                         *)
(* Timestamps: every start_date has the fixed ISO 8601 format              *)
(* "%Y-%m-%dT%H:%M:%SZ", for which string order is chronological order.    *)
(* The model keeps a timestamp as its day number k (DateStr(k) is the      *)
(* string) and None as NoDate, below every day number.                     *)
(***************************************************************************)
EXTENDS Integers, Sequences, FiniteSets, TLC

\* ---------------------------------------------------------------- bounds
MaxActs == 3    \* activities the remote account ever holds
MaxRuns == 2    \* invocations of get_activities_for_2024
PerPage == 2    \* params["per_page"] (50 in the source), scaled down

NoDate == 0     \* last_activity_date = None

\* ------------------------------------------------------- remote activities
Shapes == {"bare", "ride", "extra"}

Statuses == {200, 429, 500}

DateStr(k) == "2024-01-0" \o ToString(k) \o "T00:00:00Z"

\* JSON values of an activity object: a scalar (kept as its text), a nested
\* object (key/text pairs) or an array (texts).
Scalar(t) == [kind |-> "scalar", s |-> t, d |-> <<>>, l |-> <<>>]
Dict(pairs) == [kind |-> "dict", s |-> "", d |-> pairs, l |-> <<>>]
List(items) == [kind |-> "list", s |-> "", d |-> <<>>, l |-> items]

\* The JSON object the API returns for activity a, by its shape:
\*   bare  - only id and start_date (the objects of the tests);
\*   ride  - id, start_date, a name, a nested map (one sub-key outside the
\*           field list) and a coordinate list;
\*   extra - id, start_date, a nested athlete and a top-level field outside
\*           the field list.
Payload(a) ==
    LET base == [k \in {"id", "start_date"} |->
                    IF k = "id" THEN Scalar(ToString(a.id))
                                ELSE Scalar(DateStr(a.start_date))]
    IN  CASE a.shape = "bare" -> base
          [] a.shape = "ride" ->
                [k \in {"id", "start_date", "name", "map", "start_latlng"} |->
                    CASE k = "name" -> Scalar("Ride")
                      [] k = "map" -> Dict(<< <<"id", "m" \o ToString(a.id)>>,
                                              <<"summary_polyline", "ab">>,
                                              <<"polyline", "abcd">> >>)
                      [] k = "start_latlng" -> List(<<"1.0", "2.0">>)
                      [] OTHER -> base[k]]
          [] a.shape = "extra" ->
                [k \in {"id", "start_date", "athlete", "device_name"} |->
                    CASE k = "athlete" -> Dict(<< <<"id", "77">> >>)
                      [] k = "device_name" -> Scalar("watch")
                      [] OTHER -> base[k]]

\* GET /athlete/activities?page=p&per_page=PerPage on the list acts
\* (newest first): the p-th slice of PerPage activities, empty past the end.
PageOf(acts, p) ==
    LET lo == (p - 1) * PerPage + 1
        hi == IF p * PerPage < Len(acts) THEN p * PerPage ELSE Len(acts)
    IN  IF lo > Len(acts) THEN <<>> ELSE SubSeq(acts, lo, hi)

\* ------------------------------------------------- append_activity_to_csv
\* The field list of append_activity_to_csv, in its order, cut down to the
\* fields the shapes exercise (the source lists 59).
RequiredFields ==
    <<"athlete.id", "name", "id", "start_date", "map.id",
      "map.summary_polyline", "start_latlng">>

PyNone == "<None>"

RECURSIVE Join(_)
Join(items) ==
    IF items = <<>> THEN ""
    ELSE IF Len(items) = 1 THEN items[1]
    ELSE items[1] \o ", " \o Join(Tail(items))

\* str(value) of a list
PyStr(items) == "[" \o Join(items) \o "]"

\* Mutant of Flatten: nested objects are not expanded (kept under their own key).
FlattenNoNesting(obj) ==
    [k \in DOMAIN obj |->
        IF obj[k].kind = "list" THEN PyStr(obj[k].l) ELSE obj[k].s]

\* The first loop: nested objects become "key.sub_key" entries, lists become
\* their str(), everything else is kept.
Flatten(obj) ==
    LET P == {<<k, obj[k].s>> : k \in {x \in DOMAIN obj : obj[x].kind = "scalar"}}
             \cup {<<k, PyStr(obj[k].l)>> : k \in {x \in DOMAIN obj : obj[x].kind = "list"}}
             \cup UNION {{<<k \o "." \o obj[k].d[i][1], obj[k].d[i][2]>> :
                             i \in 1..Len(obj[k].d)} :
                         k \in {x \in DOMAIN obj : obj[x].kind = "dict"}}
    IN  [f \in {p[1] : p \in P} |-> (CHOOSE p \in P : p[1] = f)[2]]

Range(seq) == {seq[i] : i \in 1..Len(seq)}

\* "Fill missing fields with None"
FillMissing(flattened) ==
    [f \in DOMAIN flattened \cup Range(RequiredFields) |->
        IF f \in DOMAIN flattened THEN flattened[f] ELSE PyNone]

\* csv.DictWriter writes None as the empty string
CsvText(v) == IF v = PyNone THEN "" ELSE v

\* dict.get(field): None for a missing key
Get(flattened, field) ==
    IF field \in DOMAIN flattened THEN flattened[field] ELSE PyNone

\* The row writer.writerow is given: one cell per required field, in order.
RowOf(activity) ==
    LET flattened == FillMissing(Flatten(Payload(activity)))
    IN  [i \in 1..Len(RequiredFields) |->
            CsvText(Get(flattened, RequiredFields[i]))]

\* Mutant of WritesHeader: the header goes out on every append.
WritesHeaderAlways(file_exists) == TRUE

\* "if not file_exists: writer.writeheader()"
WritesHeader(file_exists) == ~file_exists

\* The file after append_activity_to_csv(activity); open(..., "a") creates it.
AppendActivityToCsv(file, activity) ==
    [exists |-> TRUE,
     lines |-> (IF file.exists THEN file.lines ELSE <<>>)
               \o (IF WritesHeader(file.exists) THEN <<RequiredFields>> ELSE <<>>)
               \o <<RowOf(activity)>>]

\* ------------------------------------------------------- checkpoint file
NoMetaFile == [exists |-> FALSE, record_count |-> 0, last_activity_date |-> NoDate]

\* load_metadata: the stored object, or the default when the file is absent
LoadMetadata(file) ==
    IF file.exists
    THEN [record_count |-> file.record_count,
          last_activity_date |-> file.last_activity_date]
    ELSE [record_count |-> 0, last_activity_date |-> NoDate]

\* save_metadata: the file is overwritten in full
SaveMetadataFile(count, date) ==
    [exists |-> TRUE, record_count |-> count, last_activity_date |-> date]

\* ------------------------------------------------------------------ state
VARIABLES
    api,                \* the account's activities, newest first
    metaFile,           \* activity_metadata.json
    csvFile,            \* activities.csv
    pc,                 \* position in get_activities_for_2024
    metadata,           \* metadata = load_metadata()
    last_activity_date, \* local last_activity_date
    record_count,       \* local record_count
    page,               \* params["page"]
    activities,         \* activities = response.json()
    idx,                \* position of the for loop in activities
    requests,           \* history: the page requests of the current run
    saves,              \* history: save_metadata calls of the current run
    raised,             \* history: the exception the run's except clause caught
    csvAtStart,         \* history: csvFile when the current run started
    metaAtStart,        \* history: metaFile when the current run started
    runs                \* history: runs started

vars == <<api, metaFile, csvFile, pc, metadata, last_activity_date,
          record_count, page, activities, idx, requests, saves, raised,
          csvAtStart, metaAtStart, runs>>

files == <<metaFile, csvFile>>
locals == <<metadata, last_activity_date, record_count, page, activities, idx>>
history == <<requests, saves, raised, csvAtStart, metaAtStart, runs>>

NoCsvFile == [exists |-> FALSE, lines |-> <<>>]

Init ==
    /\ api = <<>>
    /\ metaFile = NoMetaFile
    /\ csvFile = NoCsvFile
    /\ pc = "idle"
    /\ metadata = LoadMetadata(NoMetaFile)
    /\ last_activity_date = NoDate
    /\ record_count = 0
    /\ page = 1
    /\ activities = <<>>
    /\ idx = 1
    /\ requests = <<>>
    /\ saves = 0
    /\ raised = "none"
    /\ csvAtStart = NoCsvFile
    /\ metaAtStart = NoMetaFile
    /\ runs = 0

Returned == pc \in {"idle", "done", "killed"}

\* The account gains an activity newer than all it holds. The list changes
\* only between runs: within a run every page is a slice of the same list,
\* and a returned run's state ("done") is followed by "idle" once it changes.
NewActivity ==
    /\ Returned
    /\ Len(api) < MaxActs
    /\ \E s \in Shapes :
          api' = <<[id |-> Len(api) + 1, start_date |-> Len(api) + 1,
                    shape |-> s]>> \o api
    /\ pc' = "idle"
    /\ UNCHANGED <<files, locals, history>>

\* get_activities_for_2024, up to the try: "record_count = 0" (the read of
\* metadata's record_count is commented out)
StartRun ==
    /\ Returned
    /\ runs < MaxRuns
    /\ metadata' = LoadMetadata(metaFile)
    /\ last_activity_date' = LoadMetadata(metaFile).last_activity_date
    /\ record_count' = 0
    /\ pc' = "auth"
    /\ requests' = <<>>
    /\ saves' = 0
    /\ raised' = "none"
    /\ csvAtStart' = csvFile
    /\ metaAtStart' = metaFile
    /\ runs' = runs + 1
    /\ UNCHANGED <<api, files, page, activities, idx>>

\* get_access_token answers 200: headers and params are set up, page 1 first
GetAccessTokenOk ==
    /\ pc = "auth"
    /\ page' = 1
    /\ pc' = "request"
    /\ UNCHANGED <<api, files, metadata, last_activity_date, record_count,
                   activities, idx, history>>

\* get_access_token raises; the except clause prints it and the run returns
GetAccessTokenFails ==
    /\ pc = "auth"
    /\ raised' = "auth"
    /\ pc' = "done"
    /\ UNCHANGED <<api, files, locals, requests, saves, csvAtStart,
                   metaAtStart, runs>>

\* Mutant of OnResponse: any status that is not 200 ends paging like a 429.
OnResponseNoRaise(status, body) ==
    IF status = 200 /\ body # <<>> THEN "process" ELSE "save"

\* Mutant of OnResponse: a 429 raises like any other failure.
OnResponse429Raises(status, body) ==
    IF status = 200 THEN (IF body = <<>> THEN "save" ELSE "process")
    ELSE "raise"

\* Where the while loop goes on a response: break to save_metadata on 429
\* and on an empty page, the for loop on a non-empty page, raise otherwise.
OnResponse(status, body) ==
    IF status = 429 THEN "save"
    ELSE IF status = 200 THEN (IF body = <<>> THEN "save" ELSE "process")
    ELSE "raise"

\* Mutant of NextPage: the page number is not advanced by one.
NextPageSkips(p) == p + 2

\* params["page"] += 1
NextPage(p) == p + 1

\* requests.get(activities_url, ...) and the branch on its status. Only a 200
\* carries a body.
RequestPage ==
    /\ pc = "request"
    /\ \E status \in Statuses :
          LET body == IF status = 200 THEN PageOf(api, page) ELSE <<>>
              to == OnResponse(status, body)
          IN  /\ requests' = Append(requests,
                    [page |-> page, status |-> status, body |-> body])
              /\ activities' = body
              /\ idx' = 1
              /\ pc' = IF to = "raise" THEN "done" ELSE to
              /\ raised' = IF to = "raise" THEN "fetch" ELSE raised
    /\ UNCHANGED <<api, files, metadata, last_activity_date, record_count,
                   page, saves, csvAtStart, metaAtStart, runs>>

\* One iteration of the for loop, which takes every activity of the page (the
\* comparison with the stored last_activity_date is commented out): the row
\* is appended, the count advances and last_activity_date becomes this
\* activity's start_date; after the last activity of the page the page number
\* advances and the while loop requests again. strptime's result is only
\* printed, and it succeeds on every start_date of the API's format.
ProcessActivity ==
    /\ pc = "process"
    /\ idx <= Len(activities)
    /\ csvFile' = AppendActivityToCsv(csvFile, activities[idx])
    /\ record_count' = record_count + 1
    /\ last_activity_date' = activities[idx].start_date
    /\ IF idx = Len(activities)
       THEN /\ page' = NextPage(page)
            /\ pc' = "request"
            /\ idx' = idx
       ELSE /\ idx' = idx + 1
            /\ UNCHANGED <<page, pc>>
    /\ UNCHANGED <<api, metaFile, metadata, activities, history>>

\* Mutant of AfterSave: the loop goes on after the checkpoint write.
AfterSaveContinues == "request"

\* save_metadata is the last statement of the try
AfterSave == "done"

\* save_metadata(record_count, last_activity_date) after the while loop
SaveMetadata ==
    /\ pc = "save"
    /\ metaFile' = SaveMetadataFile(record_count, last_activity_date)
    /\ saves' = saves + 1
    /\ pc' = AfterSave
    /\ UNCHANGED <<api, csvFile, locals, requests, raised, csvAtStart,
                   metaAtStart, runs>>

\* The process is killed inside a run (KeyboardInterrupt and signals are not
\* caught by "except Exception"): the files stay as they are.
Interrupt ==
    /\ pc \in {"auth", "request", "process", "save"}
    /\ pc' = "killed"
    /\ UNCHANGED <<api, files, locals, history>>

Next ==
    \/ NewActivity
    \/ StartRun
    \/ GetAccessTokenOk
    \/ GetAccessTokenFails
    \/ RequestPage
    \/ ProcessActivity
    \/ SaveMetadata
    \/ Interrupt

Spec == Init /\ [][Next]_vars

\* ------------------------------------------------- vocabulary of the claims
IsDataLine(line) == line # RequiredFields

\* The data rows of a CSV file, in file order
DataLines(file) == SelectSeq(file.lines, IsDataLine)

\* The data rows the current (or last) run appended
RunRows ==
    SubSeq(DataLines(csvFile), Len(DataLines(csvAtStart)) + 1,
           Len(DataLines(csvFile)))

DateCol == CHOOSE i \in 1..Len(RequiredFields) : RequiredFields[i] = "start_date"

\* The day number of a data row's start_date cell
DateOfRow(row) == CHOOSE k \in 1..(MaxActs + 1) : DateStr(k) = row[DateCol]

\* The activities of the responses reqs, in the order served
RECURSIVE Bodies(_)
Bodies(reqs) ==
    IF reqs = <<>> THEN <<>> ELSE Head(reqs).body \o Bodies(Tail(reqs))

RowsOf(acts) == [i \in 1..Len(acts) |-> RowOf(acts[i])]

\* The number of non-empty pages of the list acts
NumPages(acts) == (Len(acts) + PerPage - 1) \div PerPage

InRun == pc \in {"auth", "request", "process", "save"}

\* ------------------------------------------------------------------ claims

\* C1 (as claimed): with a loaded last_activity_date T, the first activity
\* dated <= T ends the run: every row the run appends is dated > T, and every
\* page but the last one requested holds only activities dated > T.
C1_EarlyStopAtThreshold ==
    LET T == metadata.last_activity_date
    IN  T # NoDate =>
          /\ \A i \in 1..Len(RunRows) : DateOfRow(RunRows[i]) > T
          /\ \A i \in 1..(Len(requests) - 1) :
                \A j \in 1..Len(requests[i].body) :
                    requests[i].body[j].start_date > T

\* C2 (as claimed): a run that appended n >= 1 rows from a checkpoint with
\* record_count c writes record_count c + n.
C2_CheckpointArithmetic ==
    (pc = "done" /\ saves = 1 /\ Len(RunRows) >= 1) =>
        metaFile.record_count = metadata.record_count + Len(RunRows)

\* C3 (as claimed): a run that appended at least one row writes, as
\* last_activity_date, the start_date of the first row it appended.
C3_NewestDateIsFirst ==
    (pc = "done" /\ saves = 1 /\ Len(RunRows) >= 1) =>
        metaFile.last_activity_date = DateOfRow(RunRows[1])

\* C4 (as claimed): a run whose loaded checkpoint is {c, D}, against a list
\* with no activity dated after D, appends nothing and leaves the checkpoint
\* equal to {c, D}.
C4_IdempotentResumption ==
    (pc = "done" /\ \A i \in 1..Len(api) :
                        api[i].start_date <= metadata.last_activity_date) =>
        /\ csvFile = csvAtStart
        /\ LoadMetadata(metaFile) = metadata

\* C8 (as claimed): a checkpoint write never lowers the persisted
\* last_activity_date (an absent date is the minimum).
C8_CheckpointDateMonotone ==
    [][saves' = saves + 1 =>
          LoadMetadata(metaFile').last_activity_date
              >= LoadMetadata(metaFile).last_activity_date]_vars

\* C5: a 429 is the last request of its run; the run raises nothing and goes
\* on to save_metadata only; the rows the run appended, and the count it
\* reports, are exactly the activities of the pages served before the 429;
\* once the run has returned, the checkpoint has been written, dated by one
\* of those activities when there is any.
C5_RateLimitGracefulStop ==
    \A i \in 1..Len(requests) :
        requests[i].status = 429 =>
            /\ i = Len(requests)
            /\ raised = "none"
            /\ pc \notin {"auth", "request", "process"}
            /\ RunRows = RowsOf(Bodies(SubSeq(requests, 1, i - 1)))
            /\ record_count = Len(RunRows)
            /\ pc = "done" =>
                  /\ saves = 1
                  /\ metaFile.exists
                  /\ RunRows # <<>> =>
                        \E r \in 1..Len(RunRows) :
                            metaFile.last_activity_date = DateOfRow(RunRows[r])

\* A run that returned after a 429 on its second page, two rows appended
C5_Witness ==
    /\ pc = "done"
    /\ Len(requests) = 2
    /\ requests[2].status = 429
    /\ Len(RunRows) >= 2
    /\ saves = 1

\* C6: a status other than 200 and 429 is the last request of its run and
\* is raised; a run that raised (from the token exchange or from a page) has
\* not called save_metadata and leaves the checkpoint file as it found it,
\* and a failed token exchange is followed by no page request.
C6_ErrorLeavesCheckpoint ==
    /\ \A i \in 1..Len(requests) :
          requests[i].status \notin {200, 429} =>
              i = Len(requests) /\ raised = "fetch"
    /\ raised # "none" =>
          /\ ~InRun
          /\ saves = 0
          /\ metaFile = metaAtStart
          /\ raised = "auth" => requests = <<>>
          /\ raised = "fetch" =>
                /\ requests # <<>>
                /\ requests[Len(requests)].status \notin {200, 429}

\* A run that raised on its second page, after a page was appended, with a
\* checkpoint of an earlier run in place
C6_Witness ==
    /\ pc = "done"
    /\ raised = "fetch"
    /\ Len(requests) = 2
    /\ Len(RunRows) >= 1
    /\ metaAtStart.exists

\* C7: a run calls save_metadata at most once, and between that call and the
\* next run no row is appended and no page is requested; the checkpoint file
\* never counts more rows than the CSV holds, and its date, when it has one,
\* is the start_date of a row of the CSV.
C7_SinkBeforeCheckpoint ==
    /\ [](/\ saves <= 1
          /\ metaFile.exists =>
                /\ metaFile.record_count <= Len(DataLines(csvFile))
                /\ \/ metaFile.last_activity_date = NoDate
                   \/ \E r \in 1..Len(DataLines(csvFile)) :
                         DataLines(csvFile)[r][DateCol]
                             = DateStr(metaFile.last_activity_date))
    /\ [][(saves = 1 /\ runs' = runs) =>
             /\ csvFile' = csvFile
             /\ requests' = requests
             /\ saves' = saves]_vars

\* A run that wrote the checkpoint after appending rows of two pages
C7_Witness ==
    /\ pc = "done"
    /\ saves = 1
    /\ Len(requests) >= 3
    /\ Len(RunRows) >= 3
    /\ metaFile.record_count = Len(RunRows)

\* The cell the CSV is to hold for activity a under column field: the scalar
\* or the stringified list a has under that name, the sub-value for a
\* "key.sub_key" column of a nested object, and empty otherwise.
ExpectedCell(a, field) ==
    LET obj == Payload(a)
        nested == UNION {{<<k, i>> : i \in {j \in 1..Len(obj[k].d) :
                                    field = k \o "." \o obj[k].d[j][1]}} :
                         k \in {x \in DOMAIN obj : obj[x].kind = "dict"}}
    IN  IF field \in DOMAIN obj /\ obj[field].kind = "scalar" THEN obj[field].s
        ELSE IF field \in DOMAIN obj /\ obj[field].kind = "list"
             THEN PyStr(obj[field].l)
        ELSE IF nested # {}
             THEN LET n == CHOOSE n \in nested : TRUE IN obj[n[1]].d[n[2]][2]
        ELSE ""

\* The activities the account can hold
AllActivities ==
    {[id |-> k, start_date |-> k, shape |-> s] : k \in 1..MaxActs, s \in Shapes}

\* The row expected of each activity: its expected cell under every column
ExpectedRow ==
    [a \in AllActivities |->
        [c \in 1..Len(RequiredFields) |-> ExpectedCell(a, RequiredFields[c])]]

\* C9: an existing CSV starts with the header, the field list in its order,
\* and holds it nowhere else; every other line is the row of an activity of
\* the account: one cell per header column, in the header's order, holding
\* the activity's value for that column or nothing.
C9_CsvShape ==
    csvFile.exists =>
        /\ Len(csvFile.lines) >= 2
        /\ csvFile.lines[1] = RequiredFields
        /\ \A n \in 2..Len(csvFile.lines) :
              /\ csvFile.lines[n] # RequiredFields
              /\ Len(csvFile.lines[n]) = Len(RequiredFields)
              /\ \E k \in 1..Len(api) : csvFile.lines[n] = ExpectedRow[api[k]]

\* A CSV appended to by two runs, with a row of an activity that has a
\* nested map and no athlete, a row of one that has a nested athlete and no
\* map, and a row of one that has neither
C9_Witness ==
    /\ csvFile.exists
    /\ csvAtStart.exists
    /\ Len(csvFile.lines) > Len(csvAtStart.lines)
    /\ \E n \in 2..Len(csvFile.lines) :
          csvFile.lines[n][5] = "m1" /\ csvFile.lines[n][1] = ""
    /\ \E n \in 2..Len(csvFile.lines) :
          csvFile.lines[n][1] = "77" /\ csvFile.lines[n][5] = ""
    /\ \E n \in 2..Len(csvFile.lines) :
          csvFile.lines[n][1] = "" /\ csvFile.lines[n][5] = ""

\* C10: the i-th request of a run asks for page i, and a page is requested
\* only after a non-empty 200 page; an empty 200 page is the last request of
\* its run, raises nothing and adds no row; a run makes at most one request
\* more than the list has non-empty pages, and a run that returned with all
\* its requests answered 200 made exactly that many.
C10_EmptyPageTermination ==
    /\ \A i \in 1..Len(requests) :
          /\ requests[i].page = i
          /\ i < Len(requests) =>
                requests[i].status = 200 /\ requests[i].body # <<>>
          /\ (requests[i].status = 200 /\ requests[i].body = <<>>) =>
                /\ i = Len(requests)
                /\ raised = "none"
                /\ pc \notin {"auth", "request", "process"}
                /\ RunRows = RowsOf(Bodies(SubSeq(requests, 1, i - 1)))
    /\ Len(requests) <= NumPages(api) + 1
    /\ (pc = "done" /\ raised = "none"
           /\ \A i \in 1..Len(requests) : requests[i].status = 200) =>
          Len(requests) = NumPages(api) + 1

\* A run that returned on the empty third page, after two non-empty pages
C10_Witness ==
    /\ pc = "done"
    /\ Len(requests) = 3
    /\ requests[3].status = 200
    /\ requests[3].body = <<>>
    /\ Len(RunRows) = 3

====
